---------------------------- MODULE Spec2Model ----------------------------
(***************************************************************************)
(* Model of crates/maple_core/src/config.rs: the configuration schema and  *)
(* its defaults, the strict TOML loader, the process-wide OnceCell         *)
(* singletons CONFIG_FILE / CONFIG with load_config_on_startup and the     *)
(* accessors config() / config_file(), and the layered resolvers           *)
(* Config::ignore_config and Config::provider_debounce.                    *)
(***************************************************************************)
EXTENDS Integers, Sequences, FiniteSets, TLC

VARIABLES
    fs,           \* filesystem: path -> node
    fsChanges,    \* number of external changes made to the filesystem so far
    CONFIG_FILE,  \* OnceCell<PathBuf>
    CONFIG,       \* OnceCell<Config>
    calls,        \* activations of load_config_on_startup: position and locals
    created,      \* per activation: the paths its create_dir_all created
    obs,          \* outcome of the last call of config() / config_file()
    arg,          \* input of the pure function being applied
    res           \* its result

vars == <<fs, fsChanges, CONFIG_FILE, CONFIG, calls, created, obs, arg, res>>

-----------------------------------------------------------------------------
(* Option<T> values.  None carries a filler so that all options of one     *)
(* type are records of one shape.                                          *)

NoneStr == [some |-> FALSE, v |-> ""]
SomeStr(s) == [some |-> TRUE, v |-> s]
NoneNum == [some |-> FALSE, v |-> 0]
SomeNum(n) == [some |-> TRUE, v |-> n]

-----------------------------------------------------------------------------
(* Schema defaults: the Default impls of the config entities.              *)

MatcherConfig_default == [tiebreak |-> "score,-begin,-end,-length"]

LogConfig_default ==
    [log_file |-> NoneStr, max_level |-> "debug", log_target |-> ""]

CursorWordConfig_default ==
    [enable |-> FALSE,
     ignore_comment_line |-> FALSE,
     ignore_files |-> "*.toml,*.json,*.yml,*.log,tmp"]

MarkdownPluginConfig_default == [enable |-> FALSE]

CtagsPluginConfig_default == [enable |-> FALSE, max_file_size |-> 4 * 1024 * 1024]

GitPluginConfig_default_Derived ==
    [enable |-> FALSE, blame_format_string |-> NoneStr]

GitPluginConfig_default == [enable |-> TRUE, blame_format_string |-> NoneStr]

ColorizerPluginConfig_default == [enable |-> FALSE]

LinterPluginConfig_default == [enable |-> FALSE]

VisualLines == [variant |-> "VisualLines", limit |-> 0]
EntireBufferUpToLimit(n) == [variant |-> "EntireBufferUpToLimit", limit |-> n]

RenderStrategy_default == EntireBufferUpToLimit(256 * 1024)

SyntaxPluginConfig_default == [render_strategy |-> RenderStrategy_default]

PluginConfig_default ==
    [colorizer |-> ColorizerPluginConfig_default,
     cursorword |-> CursorWordConfig_default,
     ctags |-> CtagsPluginConfig_default,
     git |-> GitPluginConfig_default,
     linter |-> LinterPluginConfig_default,
     markdown |-> MarkdownPluginConfig_default,
     syntax |-> SyntaxPluginConfig_default]

IgnoreConfig_default ==
    [ignore_comments |-> FALSE,
     git_tracked_only |-> FALSE,
     ignore_file_name_pattern |-> <<>>,
     ignore_file_path_pattern |-> <<>>]

HighlightEngine_default == "Vim"

\* The empty HashMap: a function with no keys.
EmptyMap == [k \in {} |-> 0]

ProviderConfig_default ==
    [share_input_history |-> FALSE,
     max_display_size |-> NoneNum,
     preview_highlight_engine |-> HighlightEngine_default,
     sublime_syntax_color_scheme |-> NoneStr,
     project_ignores |-> EmptyMap,
     provider_ignores |-> EmptyMap,
     debounce |-> EmptyMap]

Config_default ==
    [log |-> LogConfig_default,
     matcher |-> MatcherConfig_default,
     plugin |-> PluginConfig_default,
     provider |-> ProviderConfig_default,
     global_ignore |-> IgnoreConfig_default]

-----------------------------------------------------------------------------
(* TOML documents.  A document is either malformed (syntax_ok = FALSE) or  *)
(* a set of entries; an entry is the dotted path of a key and its value.   *)
(* A value of type "table" is a table header that sets no key by itself.   *)

TBool(x) == [type |-> "bool", b |-> x, s |-> "", n |-> 0, a |-> <<>>]
TStr(x) == [type |-> "str", b |-> FALSE, s |-> x, n |-> 0, a |-> <<>>]
TInt(x) == [type |-> "int", b |-> FALSE, s |-> "", n |-> x, a |-> <<>>]
TArr(x) == [type |-> "arr", b |-> FALSE, s |-> "", n |-> 0, a |-> x]
TTable == [type |-> "table", b |-> FALSE, s |-> "", n |-> 0, a |-> <<>>]

E(p, v) == [path |-> p, val |-> v]

TomlDoc(es) == [syntax_ok |-> TRUE, entries |-> es]
MalformedDoc == [syntax_ok |-> FALSE, entries |-> {}]


-----------------------------------------------------------------------------
(* The schema: every struct with its fields and their types, as declared.  *)
(* A field of struct type names the struct; MapIgnore / MapU64 are the     *)
(* HashMap fields, whose keys are free.                                    *)

Schema ==
    [Config |->
        [log |-> "LogConfig", matcher |-> "MatcherConfig",
         plugin |-> "PluginConfig", provider |-> "ProviderConfig",
         global_ignore |-> "IgnoreConfig"],
     LogConfig |->
        [log_file |-> "OptString", max_level |-> "String",
         log_target |-> "String"],
     MatcherConfig |-> [tiebreak |-> "String"],
     PluginConfig |->
        [colorizer |-> "ColorizerPluginConfig",
         cursorword |-> "CursorWordConfig",
         ctags |-> "CtagsPluginConfig",
         git |-> "GitPluginConfig",
         linter |-> "LinterPluginConfig",
         markdown |-> "MarkdownPluginConfig",
         syntax |-> "SyntaxPluginConfig"],
     ColorizerPluginConfig |-> [enable |-> "bool"],
     CursorWordConfig |->
        [enable |-> "bool", ignore_comment_line |-> "bool",
         ignore_files |-> "String"],
     CtagsPluginConfig |-> [enable |-> "bool", max_file_size |-> "u64"],
     GitPluginConfig |->
        [enable |-> "bool", blame_format_string |-> "OptString"],
     LinterPluginConfig |-> [enable |-> "bool"],
     MarkdownPluginConfig |-> [enable |-> "bool"],
     SyntaxPluginConfig |-> [render_strategy |-> "RenderStrategy"],
     IgnoreConfig |->
        [ignore_comments |-> "bool", git_tracked_only |-> "bool",
         ignore_file_name_pattern |-> "VecString",
         ignore_file_path_pattern |-> "VecString"],
     ProviderConfig |->
        [share_input_history |-> "bool", max_display_size |-> "OptUsize",
         preview_highlight_engine |-> "HighlightEngine",
         sublime_syntax_color_scheme |-> "OptString",
         project_ignores |-> "MapIgnore", provider_ignores |-> "MapIgnore",
         debounce |-> "MapU64"]]

MapElem == [MapIgnore |-> "IgnoreConfig", MapU64 |-> "u64"]

\* serde(rename_all = "kebab-case"): the document key of a field.
KebabCase(f) ==
    CASE f = "log_file" -> "log-file"
      [] f = "max_level" -> "max-level"
      [] f = "log_target" -> "log-target"
      [] f = "ignore_comment_line" -> "ignore-comment-line"
      [] f = "ignore_files" -> "ignore-files"
      [] f = "max_file_size" -> "max-file-size"
      [] f = "blame_format_string" -> "blame-format-string"
      [] f = "render_strategy" -> "render-strategy"
      [] f = "ignore_comments" -> "ignore-comments"
      [] f = "git_tracked_only" -> "git-tracked-only"
      [] f = "ignore_file_name_pattern" -> "ignore-file-name-pattern"
      [] f = "ignore_file_path_pattern" -> "ignore-file-path-pattern"
      [] f = "share_input_history" -> "share-input-history"
      [] f = "max_display_size" -> "max-display-size"
      [] f = "preview_highlight_engine" -> "preview-highlight-engine"
      [] f = "sublime_syntax_color_scheme" -> "sublime-syntax-color-scheme"
      [] f = "project_ignores" -> "project-ignores"
      [] f = "provider_ignores" -> "provider-ignores"
      [] f = "global_ignore" -> "global-ignore"
      [] OTHER -> f

\* The variants of the closed enums under rename_all = "kebab-case".
HighlightEngine_de(s) ==
    CASE s = "sublime-syntax" -> "SublimeSyntax"
      [] s = "tree-sitter" -> "TreeSitter"
      [] s = "vim" -> "Vim"
      [] OTHER -> "unknown-variant"

RenderStrategyTags == {"visual-lines", "entire-buffer-up-to-limit"}

(* The declared type of the value at a document path, walking the schema   *)
(* from type ty; "unknown" is a key deny_unknown_fields rejects.           *)
RECURSIVE TypeAt(_, _)
TypeAt(ty, path) ==
    IF path = <<>> THEN ty
    ELSE IF ty \in DOMAIN Schema THEN
        LET fields == {f \in DOMAIN Schema[ty] : KebabCase(f) = Head(path)}
        IN  IF fields = {} THEN "unknown"
            ELSE TypeAt(Schema[ty][CHOOSE f \in fields : TRUE], Tail(path))
    ELSE IF ty \in DOMAIN MapElem THEN TypeAt(MapElem[ty], Tail(path))
    ELSE IF ty = "RenderStrategy" THEN
        IF Len(path) # 1 THEN "unknown"
        ELSE IF Head(path) = "strategy" THEN "StrategyTag"
        ELSE IF Head(path) = "file-size-limit" THEN "usize"
        ELSE "unknown"
    ELSE "unknown"

\* Whether a TOML value deserializes as the declared type.
ValueOk(ty, v) ==
    CASE ty = "bool" -> v.type = "bool"
      [] ty \in {"String", "OptString"} -> v.type = "str"
      [] ty \in {"u64", "usize", "OptUsize"} -> v.type = "int" /\ v.n >= 0
      [] ty = "VecString" -> v.type = "arr"
      [] ty = "HighlightEngine" ->
            v.type = "str" /\ HighlightEngine_de(v.s) # "unknown-variant"
      [] ty = "StrategyTag" -> v.type = "str" /\ v.s \in RenderStrategyTags
      [] OTHER -> v.type = "table"

Has(doc, p) == \E e \in doc.entries : e.path = p
Val(doc, p) == (CHOOSE e \in doc.entries : e.path = p).val

\* The keys present in the table at path p (set explicitly or implied).
KeysUnder(doc, p) ==
    {e.path[Len(p) + 1] : e \in
        {x \in doc.entries :
            Len(x.path) > Len(p) /\ SubSeq(x.path, 1, Len(p)) = p}}

BoolAt(doc, p, d) == IF Has(doc, p) THEN Val(doc, p).b ELSE d
StrAt(doc, p, d) == IF Has(doc, p) THEN Val(doc, p).s ELSE d
NumAt(doc, p, d) == IF Has(doc, p) THEN Val(doc, p).n ELSE d
VecAt(doc, p, d) == IF Has(doc, p) THEN Val(doc, p).a ELSE d
OptStrAt(doc, p, d) == IF Has(doc, p) THEN SomeStr(Val(doc, p).s) ELSE d
OptNumAt(doc, p, d) == IF Has(doc, p) THEN SomeNum(Val(doc, p).n) ELSE d

K(p, f) == Append(p, KebabCase(f))

-----------------------------------------------------------------------------
(* Deserialization of each struct under serde(default): a key the document *)
(* sets takes the document's value, every other field the value it has in  *)
(* the struct's Default.                                                   *)

LogConfig_de(doc, p) ==
    LET d == LogConfig_default
    IN  [log_file |-> OptStrAt(doc, K(p, "log_file"), d.log_file),
         max_level |-> StrAt(doc, K(p, "max_level"), d.max_level),
         log_target |-> StrAt(doc, K(p, "log_target"), d.log_target)]

MatcherConfig_de(doc, p) ==
    LET d == MatcherConfig_default
    IN  [tiebreak |-> StrAt(doc, K(p, "tiebreak"), d.tiebreak)]

ColorizerPluginConfig_de(doc, p) ==
    LET d == ColorizerPluginConfig_default
    IN  [enable |-> BoolAt(doc, K(p, "enable"), d.enable)]

CursorWordConfig_de(doc, p) ==
    LET d == CursorWordConfig_default
    IN  [enable |-> BoolAt(doc, K(p, "enable"), d.enable),
         ignore_comment_line |->
            BoolAt(doc, K(p, "ignore_comment_line"), d.ignore_comment_line),
         ignore_files |-> StrAt(doc, K(p, "ignore_files"), d.ignore_files)]

CtagsPluginConfig_de(doc, p) ==
    LET d == CtagsPluginConfig_default
    IN  [enable |-> BoolAt(doc, K(p, "enable"), d.enable),
         max_file_size |-> NumAt(doc, K(p, "max_file_size"), d.max_file_size)]

GitPluginConfig_de(doc, p) ==
    LET d == GitPluginConfig_default
    IN  [enable |-> BoolAt(doc, K(p, "enable"), d.enable),
         blame_format_string |->
            OptStrAt(doc, K(p, "blame_format_string"), d.blame_format_string)]

LinterPluginConfig_de(doc, p) ==
    LET d == LinterPluginConfig_default
    IN  [enable |-> BoolAt(doc, K(p, "enable"), d.enable)]

MarkdownPluginConfig_de(doc, p) ==
    LET d == MarkdownPluginConfig_default
    IN  [enable |-> BoolAt(doc, K(p, "enable"), d.enable)]

\* Whether the document holds a table at p (a header, or a key below it).
TablePresent(doc, p) == Has(doc, p) \/ KeysUnder(doc, p) # {}

(* The adjacently tagged enum: "strategy" selects the variant and          *)
(* "file-size-limit" carries the payload of EntireBufferUpToLimit.  The    *)
(* enum has no serde(default): a table that is present needs its tag, the  *)
(* newtype variant needs its content and the unit variant takes none.      *)
RenderStrategy_wellformed(doc, p) ==
    TablePresent(doc, p) =>
        /\ Has(doc, Append(p, "strategy"))
        /\ Val(doc, Append(p, "strategy")).s = "visual-lines"
              => ~Has(doc, Append(p, "file-size-limit"))
        /\ Val(doc, Append(p, "strategy")).s = "entire-buffer-up-to-limit"
              => Has(doc, Append(p, "file-size-limit"))

RenderStrategy_de(doc, p, d) ==
    IF ~TablePresent(doc, p) THEN d
    ELSE IF Val(doc, Append(p, "strategy")).s = "visual-lines" THEN VisualLines
    ELSE EntireBufferUpToLimit(Val(doc, Append(p, "file-size-limit")).n)

SyntaxPluginConfig_de(doc, p) ==
    LET d == SyntaxPluginConfig_default
    IN  [render_strategy |->
            RenderStrategy_de(doc, K(p, "render_strategy"), d.render_strategy)]

PluginConfig_de(doc, p) ==
    [colorizer |-> ColorizerPluginConfig_de(doc, K(p, "colorizer")),
     cursorword |-> CursorWordConfig_de(doc, K(p, "cursorword")),
     ctags |-> CtagsPluginConfig_de(doc, K(p, "ctags")),
     git |-> GitPluginConfig_de(doc, K(p, "git")),
     linter |-> LinterPluginConfig_de(doc, K(p, "linter")),
     markdown |-> MarkdownPluginConfig_de(doc, K(p, "markdown")),
     syntax |-> SyntaxPluginConfig_de(doc, K(p, "syntax"))]

IgnoreConfig_de(doc, p) ==
    LET d == IgnoreConfig_default
    IN  [ignore_comments |->
            BoolAt(doc, K(p, "ignore_comments"), d.ignore_comments),
         git_tracked_only |->
            BoolAt(doc, K(p, "git_tracked_only"), d.git_tracked_only),
         ignore_file_name_pattern |->
            VecAt(doc, K(p, "ignore_file_name_pattern"),
                  d.ignore_file_name_pattern),
         ignore_file_path_pattern |->
            VecAt(doc, K(p, "ignore_file_path_pattern"),
                  d.ignore_file_path_pattern)]

(* The HashMap fields: one entry per key of the table.  The keys of        *)
(* project_ignores are AbsPathBuf; the documents drawn here use absolute   *)
(* paths only, which are kept as written.                                  *)
IgnoreMap_de(doc, p) ==
    [k \in KeysUnder(doc, p) |-> IgnoreConfig_de(doc, Append(p, k))]

DebounceMap_de(doc, p) ==
    [k \in KeysUnder(doc, p) |-> Val(doc, Append(p, k)).n]

ProviderConfig_de(doc, p) ==
    LET d == ProviderConfig_default
    IN  [share_input_history |->
            BoolAt(doc, K(p, "share_input_history"), d.share_input_history),
         max_display_size |->
            OptNumAt(doc, K(p, "max_display_size"), d.max_display_size),
         preview_highlight_engine |->
            IF Has(doc, K(p, "preview_highlight_engine"))
            THEN HighlightEngine_de(Val(doc, K(p, "preview_highlight_engine")).s)
            ELSE d.preview_highlight_engine,
         sublime_syntax_color_scheme |->
            OptStrAt(doc, K(p, "sublime_syntax_color_scheme"),
                     d.sublime_syntax_color_scheme),
         project_ignores |-> IgnoreMap_de(doc, K(p, "project_ignores")),
         provider_ignores |-> IgnoreMap_de(doc, K(p, "provider_ignores")),
         debounce |-> DebounceMap_de(doc, K(p, "debounce"))]

Config_de(doc) ==
    [log |-> LogConfig_de(doc, K(<<>>, "log")),
     matcher |-> MatcherConfig_de(doc, K(<<>>, "matcher")),
     plugin |-> PluginConfig_de(doc, K(<<>>, "plugin")),
     provider |-> ProviderConfig_de(doc, K(<<>>, "provider")),
     global_ignore |-> IgnoreConfig_de(doc, K(<<>>, "global_ignore"))]

\* Option<toml::de::Error>
NoError == [some |-> FALSE, kind |-> ""]
DeError(kind) == [some |-> TRUE, kind |-> kind]

\* Result<Config, toml::de::Error>
Ok(v) == [ok |-> TRUE, v |-> v]
Err(e) == [ok |-> FALSE, v |-> e]

(* toml::from_str::<Config>: the text is parsed as TOML, then deserialized *)
(* against the schema with deny_unknown_fields.  Of several schema         *)
(* violations in one document the error names one; only its presence is    *)
(* used by the loader.                                                     *)
toml_from_str_AllowUnknown(doc) ==
    IF ~doc.syntax_ok THEN Err(DeError("syntax"))
    ELSE IF \E e \in doc.entries :
                /\ TypeAt("Config", e.path) # "unknown"
                /\ ~ValueOk(TypeAt("Config", e.path), e.val)
        THEN Err(DeError("invalid-type"))
    ELSE Ok(Config_de(doc))

toml_from_str(doc) ==
    IF ~doc.syntax_ok THEN Err(DeError("syntax"))
    ELSE IF \E e \in doc.entries : TypeAt("Config", e.path) = "unknown"
        THEN Err(DeError("unknown-field"))
    ELSE IF \E e \in doc.entries : ~ValueOk(TypeAt("Config", e.path), e.val)
        THEN Err(DeError("invalid-type"))
    ELSE IF ~RenderStrategy_wellformed(
                doc, K(K(K(<<>>, "plugin"), "syntax"), "render_strategy"))
        THEN Err(DeError("missing-field"))
    ELSE Ok(Config_de(doc))

-----------------------------------------------------------------------------
(* The layered resolvers.  Both return what the chain of                   *)
(* get / or_else / unwrap_or selects.  ignore_config returns a reference:  *)
(* it is modelled as the place in the Config it points to, and Deref reads *)
(* the IgnoreConfig stored there.                                          *)

RefProvider(k) == [tier |-> "provider_ignores", key |-> k]
RefProject(k) == [tier |-> "project_ignores", key |-> k]
RefGlobal == [tier |-> "global_ignore", key |-> ""]

Deref(self, r) ==
    CASE r.tier = "provider_ignores" -> self.provider.provider_ignores[r.key]
      [] r.tier = "project_ignores" -> self.provider.project_ignores[r.key]
      [] OTHER -> self.global_ignore

ignore_config_ProjectFirst(self, provider_id, project_dir) ==
    IF project_dir \in DOMAIN self.provider.project_ignores
        THEN RefProject(project_dir)
    ELSE IF provider_id \in DOMAIN self.provider.provider_ignores
        THEN RefProvider(provider_id)
    ELSE RefGlobal

ignore_config(self, provider_id, project_dir) ==
    IF provider_id \in DOMAIN self.provider.provider_ignores
        THEN RefProvider(provider_id)
    ELSE IF project_dir \in DOMAIN self.provider.project_ignores
        THEN RefProject(project_dir)
    ELSE RefGlobal

DEFAULT_DEBOUNCE == 200

provider_debounce_NoWildcard(self, provider_id) ==
    IF provider_id \in DOMAIN self.provider.debounce
        THEN self.provider.debounce[provider_id]
    ELSE DEFAULT_DEBOUNCE

provider_debounce(self, provider_id) ==
    IF provider_id \in DOMAIN self.provider.debounce
        THEN self.provider.debounce[provider_id]
    ELSE IF "*" \in DOMAIN self.provider.debounce
        THEN self.provider.debounce["*"]
    ELSE DEFAULT_DEBOUNCE

-----------------------------------------------------------------------------
(* The filesystem.  ConfigDir is what Dirs::project().config_dir() names   *)
(* (an injected value), DefaultPath is config.toml inside it, OverridePath *)
(* is a path a caller may specify.  A node is absent, a directory, a       *)
(* readable file with its contents, or a file whose read fails.            *)

ConfigDir == "~/.config/vimclap"
DefaultPath == "~/.config/vimclap/config.toml"
OverridePath == "/tmp/clap.toml"
Paths == {ConfigDir, DefaultPath, OverridePath}

EmptyDoc == TomlDoc({})
CursorwordDoc == TomlDoc({E(<<"plugin", "cursorword", "enable">>, TBool(TRUE))})
UnknownKeyDoc ==
    TomlDoc({E(<<"plugin", "cursorword", "enable">>, TBool(TRUE)),
             E(<<"plugin", "cursorword", "bogus">>, TBool(TRUE))})
TypeMismatchDoc ==
    TomlDoc({E(<<"plugin", "cursorword", "enable">>, TBool(TRUE)),
             E(<<"plugin", "ctags", "max-file-size">>, TStr("4MiB"))})
UnknownTopKeyDoc ==
    TomlDoc({E(<<"plugin", "cursorword", "enable">>, TBool(TRUE)),
             E(<<"bogus">>, TInt(1))})
InvalidDocs == {UnknownKeyDoc, UnknownTopKeyDoc, TypeMismatchDoc, MalformedDoc}
FileDocs == {EmptyDoc, CursorwordDoc} \cup InvalidDocs

Absent == [kind |-> "absent", content |-> EmptyDoc]
Dir == [kind |-> "dir", content |-> EmptyDoc]
Unreadable == [kind |-> "unreadable", content |-> EmptyDoc]
File(d) == [kind |-> "file", content |-> d]
FileNodes == {File(d) : d \in FileDocs} \cup {Unreadable}
Nodes == {Absent, Dir} \cup FileNodes

\* Path::exists
exists(p) == fs[p].kind # "absent"

\* std::fs::read_to_string: Result<String, io::Error>
read_to_string(p) ==
    CASE fs[p].kind = "file" -> Ok(fs[p].content)
      [] fs[p].kind = "absent" -> Err("NotFound")
      [] fs[p].kind = "dir" -> Err("IsADirectory")
      [] OTHER -> Err("PermissionDenied")

(* The loader expression of load_config_on_startup:                        *)
(*   read_to_string(..).and_then(|c| from_str(&c).map_err(..))             *)
(*       .unwrap_or_default()                                              *)
(* A parse error is put into maybe_config_err and replaced by an io::Error;*)
(* any Err then becomes Config::default().                                 *)
load_SurfaceIo(r) ==
    IF ~r.ok THEN [loaded_config |-> Config_default,
                   maybe_config_err |-> DeError(r.v)]
    ELSE IF toml_from_str(r.v).ok
        THEN [loaded_config |-> toml_from_str(r.v).v,
              maybe_config_err |-> NoError]
    ELSE [loaded_config |-> Config_default,
          maybe_config_err |-> toml_from_str(r.v).v]

load(r) ==
    IF ~r.ok THEN [loaded_config |-> Config_default,
                   maybe_config_err |-> NoError]
    ELSE IF toml_from_str(r.v).ok
        THEN [loaded_config |-> toml_from_str(r.v).v,
              maybe_config_err |-> NoError]
    ELSE [loaded_config |-> Config_default,
          maybe_config_err |-> toml_from_str(r.v).v]

-----------------------------------------------------------------------------
(* The process: activations of load_config_on_startup, each on some        *)
(* thread, interleaved step by step; calls of the accessors; and changes   *)
(* other programs make to the files.                                       *)

NumCalls == 2
MaxFsChanges == 1

Calls == 1 .. NumCalls

NoRead == [kind |-> "none", doc |-> EmptyDoc]
ReadOf(r) == IF r.ok THEN [kind |-> "ok", doc |-> r.v]
             ELSE [kind |-> r.v, doc |-> EmptyDoc]

\* The locals of an activation that has not started.
Idle ==
    [pc |-> "idle",
     specified_config_file |-> NoneStr,
     config_file |-> "",
     read |-> NoRead,
     loaded_config |-> Config_default,
     maybe_config_err |-> NoError,
     ret |-> Config_default]

EmptyCell == [some |-> FALSE, v |-> Config_default]
FullCell(c) == [some |-> TRUE, v |-> c]

NoObs == [fn |-> "none", panic |-> FALSE]
Unused == [fn |-> "none"]

\* The accessors: OnceCell::get().expect(..)
config_Lenient == [panic |-> FALSE, v |-> CONFIG.v]

config == [panic |-> ~CONFIG.some, v |-> CONFIG.v]

config_file == [panic |-> ~CONFIG_FILE.some, v |-> CONFIG_FILE.v]

(* The initial filesystems: any node at one of the two config file paths   *)
(* with nothing at the other; config.toml exists only inside ConfigDir.    *)
InitFs ==
    {f \in [Paths -> Nodes] :
        /\ f[ConfigDir] \in {Absent, Dir}
        /\ f[ConfigDir] = Absent => f[DefaultPath] = Absent
        /\ f[OverridePath] = Absent \/ f[DefaultPath] = Absent}

Init ==
    /\ fs \in InitFs
    /\ fsChanges = 0
    /\ CONFIG_FILE = NoneStr
    /\ CONFIG = EmptyCell
    /\ calls = [c \in Calls |-> Idle]
    /\ created = [c \in Calls |-> {}]
    /\ obs = NoObs
    /\ arg = Unused
    /\ res = Unused

(* Entry, lines 16-27: the specified path, or else the default path; the   *)
(* default path is checked with exists() and, when absent, handed to       *)
(* create_dir_all in the next step.  Activations are interchangeable, so   *)
(* they are started in the order of their numbers.                         *)
Call(c, specified) ==
    /\ calls[c].pc = "idle"
    /\ \A b \in Calls : b < c => calls[b].pc # "idle"
    /\ calls' = [calls EXCEPT ![c] =
          [@ EXCEPT !.specified_config_file = specified,
                    !.config_file =
                        IF specified.some THEN specified.v ELSE DefaultPath,
                    !.pc = IF specified.some \/ exists(DefaultPath)
                           THEN "read" ELSE "create_dir"]]
    /\ UNCHANGED <<fs, fsChanges, CONFIG_FILE, CONFIG, created, obs, arg, res>>

(* Line 23: std::fs::create_dir_all(&config_file_path).ok().  The argument *)
(* is the path of config.toml itself: it and every missing ancestor become *)
(* directories.                                                            *)
create_dir_all(f, p) ==
    [f EXCEPT ![ConfigDir] = Dir, ![p] = Dir]

CreateDirOk(c) ==
    /\ calls[c].pc = "create_dir"
    /\ fs[DefaultPath].kind \in {"absent", "dir"}
    /\ fs' = create_dir_all(fs, calls[c].config_file)
    /\ created' = [created EXCEPT ![c] = {p \in Paths : fs'[p] # fs[p]}]
    /\ calls' = [calls EXCEPT ![c].pc = "read"]
    /\ UNCHANGED <<fsChanges, CONFIG_FILE, CONFIG, obs, arg, res>>

\* create_dir_all fails (no permission, or a file is in the way); .ok()
\* drops the error.
CreateDirErr(c) ==
    /\ calls[c].pc = "create_dir"
    /\ calls' = [calls EXCEPT ![c].pc = "read"]
    /\ UNCHANGED <<fs, fsChanges, CONFIG_FILE, CONFIG, created, obs, arg, res>>

\* Lines 29-37: read the file and parse it.
ReadAndParse(c) ==
    /\ calls[c].pc = "read"
    /\ LET r == read_to_string(calls[c].config_file)
       IN  calls' = [calls EXCEPT ![c] =
              [@ EXCEPT !.read = ReadOf(r),
                        !.loaded_config = load(r).loaded_config,
                        !.maybe_config_err = load(r).maybe_config_err,
                        !.pc = "set_file"]]
    /\ UNCHANGED <<fs, fsChanges, CONFIG_FILE, CONFIG, created, obs, arg, res>>

\* What is left of an activation whose expect() panicked.
Panicked(l) == [Idle EXCEPT !.pc = "panicked",
                            !.specified_config_file = l.specified_config_file,
                            !.config_file = l.config_file]

\* Lines 39-41: CONFIG_FILE.set(config_file).expect(..)
SetConfigFile_Overwrite(c) ==
    /\ calls[c].pc = "set_file"
    /\ CONFIG_FILE' = SomeStr(calls[c].config_file)
    /\ calls' = [calls EXCEPT ![c].pc = "set_config"]
    /\ UNCHANGED <<fs, fsChanges, CONFIG, created, obs, arg, res>>

SetConfigFile(c) ==
    /\ calls[c].pc = "set_file"
    /\ IF CONFIG_FILE.some
       THEN /\ calls' = [calls EXCEPT ![c] = Panicked(@)]
            /\ UNCHANGED CONFIG_FILE
       ELSE /\ CONFIG_FILE' = SomeStr(calls[c].config_file)
            /\ calls' = [calls EXCEPT ![c].pc = "set_config"]
    /\ UNCHANGED <<fs, fsChanges, CONFIG, created, obs, arg, res>>

\* Lines 43-47: CONFIG.set(loaded_config).expect(..); (config(), err)
SetConfig(c) ==
    /\ calls[c].pc = "set_config"
    /\ IF CONFIG.some
       THEN /\ calls' = [calls EXCEPT ![c] = Panicked(@)]
            /\ UNCHANGED CONFIG
       ELSE /\ CONFIG' = FullCell(calls[c].loaded_config)
            /\ calls' = [calls EXCEPT ![c] =
                  [@ EXCEPT !.pc = "returned",
                            !.loaded_config = Config_default,
                            !.ret = calls[c].loaded_config]]
    /\ UNCHANGED <<fs, fsChanges, CONFIG_FILE, created, obs, arg, res>>

\* Some thread calls config() or config_file().
CallConfig ==
    /\ obs' = [fn |-> "config", panic |-> config.panic]
    /\ obs' # obs
    /\ UNCHANGED <<fs, fsChanges, CONFIG_FILE, CONFIG, calls, created, arg, res>>

CallConfigFile ==
    /\ obs' = [fn |-> "config_file", panic |-> config_file.panic]
    /\ obs' # obs
    /\ UNCHANGED <<fs, fsChanges, CONFIG_FILE, CONFIG, calls, created, arg, res>>

EnvNodes == {Absent, File(EmptyDoc), File(CursorwordDoc)}

\* Another program replaces, creates or removes a config file.
EnvWrite(p, n) ==
    /\ fsChanges < MaxFsChanges
    /\ p \in {DefaultPath, OverridePath}
    /\ p = DefaultPath => fs[ConfigDir] = Dir
    /\ fs[p] # Dir
    /\ n # fs[p]
    /\ fs' = [fs EXCEPT ![p] = n]
    /\ fsChanges' = fsChanges + 1
    /\ UNCHANGED <<CONFIG_FILE, CONFIG, calls, created, obs, arg, res>>

Next ==
    \/ \E c \in Calls, s \in {NoneStr, SomeStr(OverridePath)} : Call(c, s)
    \/ \E c \in Calls : CreateDirOk(c)
    \/ \E c \in Calls : CreateDirErr(c)
    \/ \E c \in Calls : ReadAndParse(c)
    \/ \E c \in Calls : SetConfigFile(c)
    \/ \E c \in Calls : SetConfig(c)
    \/ \E p \in Paths, n \in EnvNodes : EnvWrite(p, n)

Spec == Init /\ [][Next]_vars

(* The same activations on a filesystem nobody else changes, with calls of *)
(* the accessors from other threads at any point.                          *)
AccessNext ==
    \/ \E c \in Calls, s \in {NoneStr, SomeStr(OverridePath)} : Call(c, s)
    \/ \E c \in Calls : CreateDirOk(c)
    \/ \E c \in Calls : CreateDirErr(c)
    \/ \E c \in Calls : ReadAndParse(c)
    \/ \E c \in Calls : SetConfigFile(c)
    \/ \E c \in Calls : SetConfig(c)
    \/ CallConfig
    \/ CallConfigFile

AccessSpec == Init /\ [][AccessNext]_vars

-----------------------------------------------------------------------------
(* The pure functions on inputs drawn from bounded sets: the resolvers on  *)
(* Configs whose maps hold up to MaxMapKeys entries, and toml::from_str on *)
(* documents of up to MaxDocKeys entries.                                  *)

MaxMapKeys == 2
MaxDocKeys == 2

\* Partial maps from keys to vals with at most n entries.
Maps(keys, vals, n) ==
    UNION {[D -> vals] : D \in {S \in SUBSET keys : Cardinality(S) <= n}}

IgnoreA == [IgnoreConfig_default EXCEPT !.ignore_comments = TRUE]
IgnoreB == [IgnoreConfig_default EXCEPT !.ignore_file_path_pattern = <<"test">>]
IgnoreValues == {IgnoreConfig_default, IgnoreA, IgnoreB}

IgnoreArgs ==
    {[fn |-> "ignore_config",
      self |-> [Config_default EXCEPT !.provider.provider_ignores = pi,
                                      !.provider.project_ignores = pj,
                                      !.global_ignore = g],
      provider_id |-> id,
      project_dir |-> dir] :
        pi \in Maps({"dumb_jump", "files", "grep"}, IgnoreValues, MaxMapKeys),
        pj \in Maps({"/x", "/y"}, IgnoreValues, MaxMapKeys),
        g \in IgnoreValues,
        id \in {"dumb_jump", "files", "grep", "buffers"},
        dir \in {"/x", "/y", "/z"}}

DebounceArgs ==
    {[fn |-> "provider_debounce",
      self |-> [Config_default EXCEPT !.provider.debounce = db],
      provider_id |-> id] :
        db \in Maps({"*", "files", "grep"}, {0, 100, 200}, MaxMapKeys),
        id \in {"*", "files", "grep", "buffers"}}

\* Keys with values the schema accepts.
ValidEntries ==
    {E(<<"log", "log-file">>, TStr("/tmp/clap.log")),
     E(<<"log", "max-level">>, TStr("trace")),
     E(<<"log", "log-target">>, TStr("rpc=debug")),
     E(<<"matcher", "tiebreak">>, TStr("score,-begin,-end,-length")),
     E(<<"matcher", "tiebreak">>, TStr("-length")),
     E(<<"plugin", "colorizer", "enable">>, TBool(TRUE)),
     E(<<"plugin", "cursorword">>, TTable),
     E(<<"plugin", "cursorword", "enable">>, TBool(TRUE)),
     E(<<"plugin", "cursorword", "enable">>, TBool(FALSE)),
     E(<<"plugin", "cursorword", "ignore-comment-line">>, TBool(TRUE)),
     E(<<"plugin", "cursorword", "ignore-files">>, TStr("*.md")),
     E(<<"plugin", "ctags", "enable">>, TBool(TRUE)),
     E(<<"plugin", "ctags", "max-file-size">>, TInt(1024)),
     E(<<"plugin", "git", "enable">>, TBool(FALSE)),
     E(<<"plugin", "git", "blame-format-string">>, TStr("(author)")),
     E(<<"plugin", "linter", "enable">>, TBool(TRUE)),
     E(<<"plugin", "markdown", "enable">>, TBool(TRUE)),
     E(<<"plugin", "syntax", "render-strategy", "strategy">>,
       TStr("visual-lines")),
     E(<<"plugin", "syntax", "render-strategy", "strategy">>,
       TStr("entire-buffer-up-to-limit")),
     E(<<"plugin", "syntax", "render-strategy", "file-size-limit">>,
       TInt(4096)),
     E(<<"provider", "share-input-history">>, TBool(TRUE)),
     E(<<"provider", "max-display-size">>, TInt(30)),
     E(<<"provider", "preview-highlight-engine">>, TStr("tree-sitter")),
     E(<<"provider", "sublime-syntax-color-scheme">>, TStr("Dracula")),
     E(<<"provider", "debounce", "*">>, TInt(200)),
     E(<<"provider", "debounce", "files">>, TInt(100)),
     E(<<"provider", "provider-ignores", "dumb_jump">>, TTable),
     E(<<"provider", "provider-ignores", "dumb_jump", "ignore-comments">>,
       TBool(TRUE)),
     E(<<"provider", "provider-ignores", "files", "ignore-file-path-pattern">>,
       TArr(<<"test">>)),
     E(<<"provider", "project-ignores", "/x", "git-tracked-only">>,
       TBool(TRUE)),
     E(<<"global-ignore", "ignore-comments">>, TBool(TRUE)),
     E(<<"global-ignore", "git-tracked-only">>, TBool(TRUE)),
     E(<<"global-ignore", "ignore-file-name-pattern">>, TArr(<<"*.lock">>)),
     E(<<"global-ignore", "ignore-file-path-pattern">>,
       TArr(<<"test", "build">>))}

\* Keys that are not in the schema, and values of the wrong type.
InvalidEntries ==
    {E(<<"bogus">>, TInt(1)),
     E(<<"log", "max_level">>, TStr("trace")),
     E(<<"plugin", "cursorword", "bogus">>, TBool(TRUE)),
     E(<<"plugin", "syntax", "render-strategy", "limit">>, TInt(1)),
     E(<<"provider", "provider-ignores", "dumb_jump", "bogus">>, TBool(TRUE)),
     E(<<"log">>, TStr("debug")),
     E(<<"plugin", "ctags", "enable">>, TStr("yes")),
     E(<<"plugin", "ctags", "max-file-size">>, TInt(-1)),
     E(<<"provider", "preview-highlight-engine">>, TStr("emacs")),
     E(<<"provider", "debounce", "grep">>, TStr("slow"))}

AllEntries == ValidEntries \cup InvalidEntries

\* The sets of up to n entries in which no key is set twice.
RECURSIVE EntrySets(_)
EntrySets(n) ==
    IF n = 0 THEN {{}}
    ELSE LET prev == EntrySets(n - 1)
         IN  prev \cup
             UNION {{S \cup {e} : e \in {x \in AllEntries :
                                            \A y \in S : y.path # x.path}} :
                    S \in prev}

\* The document of tests::test_load_config.
TestDoc ==
    TomlDoc({E(<<"log", "max-level">>, TStr("trace")),
             E(<<"log", "log-file">>, TStr("/tmp/clap.log")),
             E(<<"matcher", "tiebreak">>, TStr("score,-begin,-end,-length")),
             E(<<"plugin", "cursorword", "enable">>, TBool(TRUE)),
             E(<<"provider", "debounce", "*">>, TInt(200)),
             E(<<"provider", "debounce", "files">>, TInt(100)),
             E(<<"global-ignore", "ignore-file-path-pattern">>,
               TArr(<<"test", "build">>)),
             E(<<"provider", "provider-ignores", "dumb_jump",
                 "ignore-comments">>, TBool(TRUE))})

\* What test_load_config asserts the document deserializes to.
TestConfig ==
    [log |-> [LogConfig_default EXCEPT !.log_file = SomeStr("/tmp/clap.log"),
                                       !.max_level = "trace"],
     matcher |-> [tiebreak |-> "score,-begin,-end,-length"],
     plugin |-> [PluginConfig_default EXCEPT
                    !.cursorword = [CursorWordConfig_default EXCEPT
                                       !.enable = TRUE]],
     provider |-> [ProviderConfig_default EXCEPT
                    !.debounce = [k \in {"*", "files"} |->
                                     IF k = "*" THEN 200 ELSE 100],
                    !.provider_ignores =
                        [k \in {"dumb_jump"} |->
                            [IgnoreConfig_default EXCEPT
                                !.ignore_comments = TRUE]]],
     global_ignore |-> [IgnoreConfig_default EXCEPT
                          !.ignore_file_path_pattern = <<"test", "build">>]]

ParseArgs ==
    {[fn |-> "toml_from_str", doc |-> d] :
        d \in {TomlDoc(es) : es \in EntrySets(MaxDocKeys)}
              \cup {MalformedDoc, TestDoc}}

NoResult == [done |-> FALSE]

PureInit ==
    /\ fs = [p \in Paths |-> Absent]
    /\ fsChanges = 0
    /\ CONFIG_FILE = NoneStr
    /\ CONFIG = EmptyCell
    /\ calls = [c \in Calls |-> Idle]
    /\ created = [c \in Calls |-> {}]
    /\ obs = NoObs
    /\ arg \in IgnoreArgs \cup DebounceArgs \cup ParseArgs
    /\ res = NoResult

Apply_ignore_config ==
    /\ arg.fn = "ignore_config"
    /\ ~res.done
    /\ LET r == ignore_config(arg.self, arg.provider_id, arg.project_dir)
       IN  res' = [done |-> TRUE, v |-> r, val |-> Deref(arg.self, r)]
    /\ UNCHANGED <<fs, fsChanges, CONFIG_FILE, CONFIG, calls, created, obs, arg>>

Apply_provider_debounce ==
    /\ arg.fn = "provider_debounce"
    /\ ~res.done
    /\ res' = [done |-> TRUE, v |-> provider_debounce(arg.self, arg.provider_id)]
    /\ UNCHANGED <<fs, fsChanges, CONFIG_FILE, CONFIG, calls, created, obs, arg>>

Apply_toml_from_str ==
    /\ arg.fn = "toml_from_str"
    /\ ~res.done
    /\ res' = [done |-> TRUE, v |-> toml_from_str(arg.doc)]
    /\ UNCHANGED <<fs, fsChanges, CONFIG_FILE, CONFIG, calls, created, obs, arg>>

PureNext ==
    \/ Apply_ignore_config
    \/ Apply_provider_debounce
    \/ Apply_toml_from_str

PureSpec == PureInit /\ [][PureNext]_vars

-----------------------------------------------------------------------------
(* Properties of the resolvers and of deserialization (PureSpec).          *)

\* C1: ignore_config returns one whole IgnoreConfig by fixed precedence:
\* the provider entry if present (also when a project entry exists), else
\* the project entry if present, else global_ignore; never a mix of tiers.
C1_IgnorePrecedence ==
    (arg.fn = "ignore_config" /\ res.done) =>
        LET prov == arg.self.provider.provider_ignores
            proj == arg.self.provider.project_ignores
        IN  /\ arg.provider_id \in DOMAIN prov =>
                /\ res.v.tier = "provider_ignores"
                /\ res.val = prov[arg.provider_id]
            /\ (arg.provider_id \notin DOMAIN prov
                    /\ arg.project_dir \in DOMAIN proj) =>
                /\ res.v.tier = "project_ignores"
                /\ res.val = proj[arg.project_dir]
            /\ (arg.provider_id \notin DOMAIN prov
                    /\ arg.project_dir \notin DOMAIN proj) =>
                /\ res.v.tier = "global_ignore"
                /\ res.val = arg.self.global_ignore

\* A lookup where all three tiers are present and differ, and the provider
\* entry was returned.
C1_Witness ==
    /\ arg.fn = "ignore_config"
    /\ res.done
    /\ arg.provider_id \in DOMAIN arg.self.provider.provider_ignores
    /\ arg.project_dir \in DOMAIN arg.self.provider.project_ignores
    /\ arg.self.provider.provider_ignores[arg.provider_id] = IgnoreA
    /\ arg.self.provider.project_ignores[arg.project_dir] = IgnoreB
    /\ arg.self.global_ignore = IgnoreConfig_default
    /\ res.val = IgnoreA

\* C2: provider_debounce returns debounce[provider_id] if present, else
\* debounce["*"] if present, else 200; with {"*": 200, "files": 100} it is
\* 100 for "files" and 200 for "grep", and 200 for an empty map.
C2_DebounceFallback ==
    (arg.fn = "provider_debounce" /\ res.done) =>
        LET db == arg.self.provider.debounce
            id == arg.provider_id
        IN  /\ id \in DOMAIN db => res.v = db[id]
            /\ (id \notin DOMAIN db /\ "*" \in DOMAIN db) => res.v = db["*"]
            /\ (id \notin DOMAIN db /\ "*" \notin DOMAIN db) => res.v = 200
            /\ (DOMAIN db = {"*", "files"} /\ db["*"] = 200 /\ db["files"] = 100)
                => /\ id = "files" => res.v = 100
                   /\ id = "grep" => res.v = 200
            /\ DOMAIN db = {} => res.v = 200

\* The wildcard decided a lookup, with a value other than the constant.
C2_Witness ==
    /\ arg.fn = "provider_debounce"
    /\ res.done
    /\ DOMAIN arg.self.provider.debounce = {"*", "files"}
    /\ arg.self.provider.debounce["*"] = 100
    /\ arg.provider_id = "grep"
    /\ res.v = 100

\* C9: when a document parses, every field it names has the document's
\* value and every field it omits has that field's own default, per field
\* and per nested table; [plugin.cursorword] enable = true alone leaves the
\* other cursorword fields and all other plugin configs at their defaults
\* (git.enable true, ctags.enable false).
C9_FieldwiseDefaults ==
    (arg.fn = "toml_from_str" /\ res.done) =>
        LET d == arg.doc
            c == res.v.v
        IN  /\ res.v.ok =>
                /\ c.log.log_file =
                     OptStrAt(d, <<"log", "log-file">>, NoneStr)
                /\ c.log.max_level = StrAt(d, <<"log", "max-level">>, "debug")
                /\ c.log.log_target = StrAt(d, <<"log", "log-target">>, "")
                /\ c.matcher.tiebreak =
                     StrAt(d, <<"matcher", "tiebreak">>,
                           "score,-begin,-end,-length")
                /\ c.plugin.colorizer.enable =
                     BoolAt(d, <<"plugin", "colorizer", "enable">>, FALSE)
                /\ c.plugin.cursorword.enable =
                     BoolAt(d, <<"plugin", "cursorword", "enable">>, FALSE)
                /\ c.plugin.cursorword.ignore_comment_line =
                     BoolAt(d, <<"plugin", "cursorword",
                                 "ignore-comment-line">>, FALSE)
                /\ c.plugin.cursorword.ignore_files =
                     StrAt(d, <<"plugin", "cursorword", "ignore-files">>,
                           "*.toml,*.json,*.yml,*.log,tmp")
                /\ c.plugin.ctags.enable =
                     BoolAt(d, <<"plugin", "ctags", "enable">>, FALSE)
                /\ c.plugin.ctags.max_file_size =
                     NumAt(d, <<"plugin", "ctags", "max-file-size">>, 4194304)
                /\ c.plugin.git.enable =
                     BoolAt(d, <<"plugin", "git", "enable">>, TRUE)
                /\ c.plugin.git.blame_format_string =
                     OptStrAt(d, <<"plugin", "git", "blame-format-string">>,
                              NoneStr)
                /\ c.plugin.linter.enable =
                     BoolAt(d, <<"plugin", "linter", "enable">>, FALSE)
                /\ c.plugin.markdown.enable =
                     BoolAt(d, <<"plugin", "markdown", "enable">>, FALSE)
                /\ ~Has(d, <<"plugin", "syntax", "render-strategy",
                             "strategy">>)
                      => c.plugin.syntax.render_strategy =
                            EntireBufferUpToLimit(262144)
                /\ c.provider.share_input_history =
                     BoolAt(d, <<"provider", "share-input-history">>, FALSE)
                /\ c.provider.max_display_size =
                     OptNumAt(d, <<"provider", "max-display-size">>, NoneNum)
                /\ ~Has(d, <<"provider", "preview-highlight-engine">>)
                      => c.provider.preview_highlight_engine = "Vim"
                /\ c.provider.sublime_syntax_color_scheme =
                     OptStrAt(d, <<"provider", "sublime-syntax-color-scheme">>,
                              NoneStr)
                /\ DOMAIN c.provider.debounce =
                     KeysUnder(d, <<"provider", "debounce">>)
                /\ DOMAIN c.provider.provider_ignores =
                     KeysUnder(d, <<"provider", "provider-ignores">>)
                /\ DOMAIN c.provider.project_ignores =
                     KeysUnder(d, <<"provider", "project-ignores">>)
                /\ c.global_ignore.ignore_comments =
                     BoolAt(d, <<"global-ignore", "ignore-comments">>, FALSE)
                /\ c.global_ignore.git_tracked_only =
                     BoolAt(d, <<"global-ignore", "git-tracked-only">>, FALSE)
                /\ c.global_ignore.ignore_file_name_pattern =
                     VecAt(d, <<"global-ignore", "ignore-file-name-pattern">>,
                           <<>>)
                /\ c.global_ignore.ignore_file_path_pattern =
                     VecAt(d, <<"global-ignore", "ignore-file-path-pattern">>,
                           <<>>)
            /\ d = CursorwordDoc =>
                /\ res.v.ok
                /\ c.plugin.cursorword =
                     [enable |-> TRUE, ignore_comment_line |-> FALSE,
                      ignore_files |-> "*.toml,*.json,*.yml,*.log,tmp"]
                /\ c.plugin.git.enable = TRUE
                /\ c.plugin.ctags.enable = FALSE
                /\ c.plugin.colorizer.enable = FALSE
                /\ c.plugin.linter.enable = FALSE
                /\ c.plugin.markdown.enable = FALSE
            /\ d = TestDoc => (res.v.ok /\ c = TestConfig)
            /\ (d.syntax_ok /\ d.entries \subseteq ValidEntries
                  /\ ~TablePresent(d, <<"plugin", "syntax", "render-strategy">>))
                => res.v.ok

\* The cursorword document was parsed: its flag is set, the other plugin
\* flags keep their own defaults.
C9_Witness ==
    /\ arg.fn = "toml_from_str"
    /\ res.done
    /\ arg.doc = CursorwordDoc
    /\ res.v.ok
    /\ res.v.v.plugin.cursorword.enable
    /\ res.v.v.plugin.git.enable
    /\ ~res.v.v.plugin.ctags.enable

-----------------------------------------------------------------------------
(* Properties of load_config_on_startup and the singletons (Spec), and of  *)
(* the accessors (AccessSpec).                                             *)

Returned == {c \in Calls : calls[c].pc = "returned"}
PanickedCalls == {c \in Calls : calls[c].pc = "panicked"}
\* The activations that got past CONFIG_FILE.set.
Publishers == {c \in Calls : calls[c].pc \in {"set_config", "returned"}}
\* The activations that have run the read-and-parse step.
Loaded ==
    {c \in Calls :
        calls[c].pc \in {"set_file", "set_config", "returned", "panicked"}}

\* C3: of any calls of load_config_on_startup only the first returns, every
\* later one panics, and config() and config_file() keep returning what the
\* first call published, whatever path or file content a later call saw.
C3_OnlyFirstCallReturns ==
    /\ Cardinality(Returned) <= 1
    /\ \A c \in Returned :
          /\ \A b \in Calls \ {c} :
                calls[b].pc \notin {"set_config", "returned"}
          /\ ~config.panic
          /\ config.v = calls[c].ret
          /\ ~config_file.panic
          /\ config_file.v = calls[c].config_file

\* One call returned; a later one, given another path after the file was
\* changed, panicked, and the published path is still the first call's.
C3_Witness ==
    \E c \in Returned, b \in PanickedCalls :
        /\ fsChanges > 0
        /\ calls[b].config_file # calls[c].config_file
        /\ CONFIG_FILE.v = calls[c].config_file
        /\ CONFIG.v = calls[c].ret
        /\ calls[c].ret # Config_default

\* C4: a document that exists but fails schema validation (malformed, type
\* mismatch, unknown key) still lets the first call return, with a Config
\* equal to Config::default() as a whole and a Some error.
C4_SchemaFailureGivesDefaults ==
    \A c \in Calls :
        (calls[c].read.kind = "ok" /\ calls[c].read.doc \in InvalidDocs) =>
            /\ calls[c].maybe_config_err.some
            /\ calls[c].pc \in {"set_file", "set_config"}
                  => calls[c].loaded_config = Config_default
            /\ calls[c].pc = "returned" =>
                  /\ calls[c].ret = Config_default
                  /\ CONFIG = FullCell(Config_default)

\* A call that read the document with an unknown key has returned.
C4_Witness ==
    \E c \in Returned :
        /\ calls[c].read.kind = "ok"
        /\ calls[c].read.doc = UnknownKeyDoc
        /\ calls[c].maybe_config_err.some
        /\ calls[c].ret = Config_default

IoFailures == {"PermissionDenied", "IsADirectory"}

\* The read failed on something that was at the path before the call: a
\* file that cannot be read, or a directory the call did not create itself.
ReadFailed(c) ==
    /\ calls[c].read.kind \in IoFailures
    /\ calls[c].config_file \notin created[c]

NoDocument(c) ==
    \/ calls[c].read.kind = "NotFound"
    \/ calls[c].read.kind = "IsADirectory" /\ calls[c].config_file \in created[c]

\* C6: an absent or empty document makes the first call return a Config
\* equal to Config::default() and a None error.
C6_AbsentOrEmptyGivesDefaults ==
    \A c \in Returned :
        (NoDocument(c)
            \/ (calls[c].read.kind = "ok" /\ calls[c].read.doc = EmptyDoc)) =>
            /\ calls[c].ret = Config_default
            /\ CONFIG = FullCell(Config_default)
            /\ ~calls[c].maybe_config_err.some

\* A call that found nothing at the specified path has returned.
C6_Witness ==
    \E c \in Returned :
        /\ calls[c].read.kind = "NotFound"
        /\ ~calls[c].maybe_config_err.some
        /\ calls[c].ret = Config_default

\* C7 as stated: the load-and-publish sequence (resolve, read and parse,
\* set CONFIG_FILE, set CONFIG) runs for at most one caller: no second
\* caller gets to read and parse the file.
C7_LoadRunsAtMostOnce == Cardinality(Loaded) <= 1

\* C7 (amended): publication is at-most-once: in every interleaving at most
\* one caller gets past CONFIG_FILE.set, and it is that caller's path and
\* Config that are published; every other caller, after its own read and
\* parse, panics there.
C7_PublishAtMostOnce ==
    /\ Cardinality(Publishers) <= 1
    /\ CONFIG_FILE.some <=> Publishers # {}
    /\ CONFIG.some <=> Returned # {}
    /\ \A c \in Publishers : CONFIG_FILE.v = calls[c].config_file
    /\ \A c \in PanickedCalls : CONFIG_FILE.some

\* Two concurrent callers have both loaded; one is past CONFIG_FILE.set and
\* not yet done, the other was rejected.
C7_Witness ==
    \E c \in Calls, b \in PanickedCalls :
        /\ calls[c].pc = "set_config"
        /\ Cardinality(Loaded) = 2

InitializationCompleted == Returned # {}

\* C8 as stated: in every state, while initialization has not completed
\* both accessors panic, and once it has completed both return.
C8_AccessorsOnlyAfterInit ==
    /\ ~InitializationCompleted => (config.panic /\ config_file.panic)
    /\ InitializationCompleted => (~config.panic /\ ~config_file.panic)

\* C8 (amended): both accessors panic until a call gets past
\* CONFIG_FILE.set; from then until that call sets CONFIG, config_file()
\* already returns the path while config() still panics; once the call has
\* returned both return what it published.
C8_AccessorsFollowCells ==
    /\ Publishers = {} => (config.panic /\ config_file.panic)
    /\ \A c \in Calls : calls[c].pc = "set_config" =>
          /\ config.panic
          /\ ~config_file.panic
          /\ config_file.v = calls[c].config_file
    /\ \A c \in Returned :
          /\ ~config.panic
          /\ config.v = calls[c].ret
          /\ ~config_file.panic
          /\ config_file.v = calls[c].config_file
    /\ (obs.fn = "config" /\ ~obs.panic) => InitializationCompleted
    /\ (obs.fn = "config_file" /\ ~obs.panic) => Publishers # {}

\* config_file() has returned a value while the call that published the
\* path has not yet set CONFIG.
C8_Witness ==
    /\ obs.fn = "config_file"
    /\ ~obs.panic
    /\ \E c \in Calls : calls[c].pc = "set_config"
    /\ config.panic

\* C10: a call with an override path uses it and changes no file; a call
\* without one uses <config_dir>/config.toml and creates nothing but the
\* missing parent directory, which exists afterwards; the published path is
\* the resolved one.
C10_OnlyParentDirCreated ==
    \A c \in Calls :
        /\ calls[c].specified_config_file.some => created[c] = {}
        /\ ~calls[c].specified_config_file.some => created[c] \subseteq {ConfigDir}
        /\ created[c] # {} => fs[ConfigDir] = Dir
        /\ calls[c].pc = "returned" => config_file.v = calls[c].config_file

=============================================================================
